---- MODULE Spec2Model ----
(***************************************************************************)
(* LiveView (src/components/LiveView.tsx): the live-voice view.  A button *)
(* toggles connect / disconnect; connect opens a remote live session whose *)
(* callbacks (onopen, onmessage, onclose, onerror) drive the React state,   *)
(* the microphone capture graph and the playback scheduler.                 *)
(***************************************************************************)
EXTENDS Integers, Sequences, FiniteSets, TLC

\* ---------------------------------------------------------------- bounds
MaxSessions == 3      \* connect() calls explored (lifecycle)
MaxOverlap == 3       \* connect() calls explored while audio is flowing
OverlapChunks == 1    \* inbound audio messages explored across those sessions
BurstChunks == 3      \* inbound audio messages explored within one session
MaxTime == 1          \* largest reading of an output context's currentTime
MaxDur == 1           \* largest decoded buffer duration
ReconnectSessions == 3 \* connect() calls explored with several chunks in flight
ReconnectChunks == 2  \* inbound audio messages explored across a second connect()
DuplexSessions == 2   \* connect() calls explored while frames are captured
DuplexChunks == 1     \* inbound audio messages explored while frames are captured
MaxFrames == 3        \* microphone frames explored (onaudioprocess calls)
CaptureSessions == 2  \* connect() calls explored on the capture side alone
MaxChat == 3          \* handleSend calls explored in ChatView
MaxGen == 2           \* handleGenerate calls explored in StudioView
MaxPolls == 2         \* getVideosOperation polls explored per generateVideo call
MaxAct == 2           \* handleAction calls explored in VisionView
MaxVolume == 1        \* largest average the analyser reports

Sessions == 1..MaxSessions
Durations == 0..MaxDur

\* Payload of an inbound message (msg.serverContent...inlineData.data):
\*   kind "none"   : no inline audio data (audioData undefined)
\*   kind "badB64" : a string atob() rejects
\*   kind "badPcm" : valid base64 whose bytes decodeAudioData cannot decode
\*   kind "pcm"    : decodable audio of duration dur
Payloads ==
    {[kind |-> "none", dur |-> 0], [kind |-> "badB64", dur |-> 0],
     [kind |-> "badPcm", dur |-> 0]}
    \cup {[kind |-> "pcm", dur |-> d] : d \in Durations}

VARIABLES
    status,            \* useState('Disconnected')
    isConnected,       \* useState(false)
    audioContextRef,   \* 0 = null, k = the output context made by connect #k
    nextStartTimeRef,  \* the playback clock
    sessionPromiseRef, \* 0 = null, k = the promise of session #k
    nSessions,         \* number of ai.live.connect calls made so far
    session,           \* session[k]: "none" | "opening" | "open" | "errored" | "closed"
    closeReq,          \* sessions with a pending or executed then(s => s.close())
    outCtx,            \* outCtx[k]: "none" | "running" | "closed"  (24 kHz context)
    ctxTime,           \* ctxTime[k]: currentTime of output context k
    capCtx,            \* capCtx[k]: "none" | "running"  (16 kHz capture context)
    mic,               \* mic[k]: "none" | "pending" | "acquired" | "denied"
    chunks,            \* inbound audio messages in arrival order
    closeRejected,     \* some AudioContext.close() was called on a closed context
    lastOp,            \* the handler that ran last
    resolved,          \* sessions whose sessionPromise has resolved
    reactions,         \* reactions[k]: then-callbacks registered on promise k, not yet
                       \*   run, in registration order: a frame number, or 0 for s.close()
    sent,              \* sent[k]: frames passed to session k's sendRealtimeInput, in call order
    nFrames,           \* nFrames[k]: frames captured so far by the graph of session k
    audioVolume,       \* useState(0)
    \* ChatView (src/types.ts)
    input,             \* the input box holds non-blank text
    messages,          \* the message list: [role, req]
    isLoading,         \* useState(false)
    chatReqs,          \* handleSend calls awaiting sendChatMessage
    nChat,             \* handleSend calls made so far
    \* StudioView (src/components/LiveView.tsx, lines 176-338)
    mode,              \* 'image' | 'video' | 'tts'
    prompt,            \* the prompt box is not empty
    studioLoading,     \* StudioView's loading
    result,            \* StudioView's result: [kind, req, mode]
    alerts,            \* requests for which alert("Generation failed...") was shown
    gen,               \* the handleGenerate calls made, each with its position
    nGen,              \* handleGenerate calls made so far
    \* VisionView (src/components/VisionView.tsx)
    activeTab,         \* 'analyze' | 'edit' | 'audio'
    file,              \* the type of the chosen file, or "none"
    preview,           \* preview holds a data URL
    reading,           \* a FileReader is loading
    output,            \* VisionView's output: [kind, req, tab]
    visionLoading,     \* VisionView's loading
    act,               \* the handleAction calls made, each with its position
    nAct               \* handleAction calls made so far

vars == <<status, isConnected, audioContextRef, nextStartTimeRef, sessionPromiseRef,
          nSessions, session, closeReq, outCtx, ctxTime, capCtx, mic, chunks, closeRejected,
          lastOp, resolved, reactions, sent, nFrames, audioVolume,
          input, messages, isLoading, chatReqs, nChat,
          mode, prompt, studioLoading, result, alerts, gen, nGen,
          activeTab, file, preview, reading, output, visionLoading, act, nAct>>

\* useState(null) of StudioView's result and of VisionView's output.
NoResult == [kind |-> "null", req |-> 0, mode |-> "none"]
NoOutput == [kind |-> "null", req |-> 0, tab |-> "none"]

\* The state of each view; lastOp is shared.
live == <<status, isConnected, audioContextRef, nextStartTimeRef, sessionPromiseRef,
          nSessions, session, closeReq, outCtx, ctxTime, capCtx, mic, chunks, closeRejected,
          resolved, reactions, sent, nFrames, audioVolume>>
chat == <<input, messages, isLoading, chatReqs, nChat>>
studio == <<mode, prompt, studioLoading, result, alerts, gen, nGen>>
vision == <<activeTab, file, preview, reading, output, visionLoading, act, nAct>>
views == <<chat, studio, vision>>

\* The outbound (capture) side of the view.
outbound == <<resolved, reactions, sent, nFrames, audioVolume>>

Max(a, b) == IF a >= b THEN a ELSE b

Init ==
    /\ status = "Disconnected"
    /\ isConnected = FALSE
    /\ audioContextRef = 0
    /\ nextStartTimeRef = 0
    /\ sessionPromiseRef = 0
    /\ nSessions = 0
    /\ session = [k \in Sessions |-> "none"]
    /\ closeReq = {}
    /\ outCtx = [k \in Sessions |-> "none"]
    /\ ctxTime = [k \in Sessions |-> 0]
    /\ capCtx = [k \in Sessions |-> "none"]
    /\ mic = [k \in Sessions |-> "none"]
    /\ chunks = <<>>
    /\ closeRejected = FALSE
    /\ lastOp = "init"
    /\ resolved = {}
    /\ reactions = [k \in Sessions |-> <<>>]
    /\ sent = [k \in Sessions |-> <<>>]
    /\ nFrames = [k \in Sessions |-> 0]
    /\ audioVolume = 0
    /\ input = FALSE
    /\ messages = <<[role |-> "model", req |-> 0]>>
    /\ isLoading = FALSE
    /\ chatReqs = {}
    /\ nChat = 0
    /\ mode = "image"
    /\ prompt = FALSE
    /\ studioLoading = FALSE
    /\ result = NoResult
    /\ alerts = {}
    /\ gen = {}
    /\ nGen = 0
    /\ activeTab = "analyze"
    /\ file = "none"
    /\ preview = FALSE
    /\ reading = FALSE
    /\ output = NoOutput
    /\ visionLoading = FALSE
    /\ act = {}
    /\ nAct = 0

\* ------------------------------------------------------------ connect()
\* Lines 62-122 with no exception: a new output context, the clock reset,
\* a new session being opened, the promise stored in the ref.
connect ==
    /\ nSessions < MaxSessions
    /\ LET k == nSessions + 1 IN
        /\ status' = "Connecting..."
        /\ outCtx' = [outCtx EXCEPT ![k] = "running"]
        /\ ctxTime' = [ctxTime EXCEPT ![k] = 0]
        /\ audioContextRef' = k
        /\ nextStartTimeRef' = 0
        /\ session' = [session EXCEPT ![k] = "opening"]
        /\ sessionPromiseRef' = k
        /\ nSessions' = k
    /\ lastOp' = "connect"
    /\ UNCHANGED <<isConnected, closeReq, capCtx, mic, chunks, closeRejected, outbound, views>>

\* Lines 63-65, 124-127: a constructor throws before anything is acquired.
connectFail ==
    /\ status' = "Failed to connect"
    /\ lastOp' = "connectFail"
    /\ UNCHANGED <<isConnected, audioContextRef, nextStartTimeRef, sessionPromiseRef,
                   nSessions, session, closeReq, outCtx, ctxTime, capCtx, mic, chunks, closeRejected, outbound, views>>

\* A disconnect() that also rewinds the playback clock (not what lines
\* 130-139 do).
disconnectResettingClock ==
    /\ closeReq' = IF sessionPromiseRef # 0 THEN closeReq \cup {sessionPromiseRef}
                   ELSE closeReq
    /\ reactions' = IF sessionPromiseRef # 0 /\ sessionPromiseRef \notin resolved
                     THEN [reactions EXCEPT ![sessionPromiseRef] = Append(@, 0)]
                     ELSE reactions
    /\ IF audioContextRef # 0
         THEN /\ closeRejected' = (closeRejected \/ outCtx[audioContextRef] = "closed")
              /\ outCtx' = [outCtx EXCEPT ![audioContextRef] = "closed"]
         ELSE UNCHANGED <<closeRejected, outCtx>>
    /\ nextStartTimeRef' = 0
    /\ isConnected' = FALSE
    /\ status' = "Disconnected"
    /\ lastOp' = "disconnect"
    /\ UNCHANGED <<audioContextRef, sessionPromiseRef, nSessions,
                   session, ctxTime, capCtx, mic, chunks, resolved, sent, nFrames,
                   audioVolume, views>>

\* --------------------------------------------------------- disconnect()
\* Line 132 registers s => s.close() on the promise in the ref: it runs at once
\* when that promise has resolved, and after the reactions registered before
\* it otherwise.
disconnect ==
    /\ closeReq' = IF sessionPromiseRef # 0 THEN closeReq \cup {sessionPromiseRef}
                   ELSE closeReq
    /\ reactions' = IF sessionPromiseRef # 0 /\ sessionPromiseRef \notin resolved
                     THEN [reactions EXCEPT ![sessionPromiseRef] = Append(@, 0)]
                     ELSE reactions
    /\ IF audioContextRef # 0
         THEN /\ closeRejected' = (closeRejected \/ outCtx[audioContextRef] = "closed")
              /\ outCtx' = [outCtx EXCEPT ![audioContextRef] = "closed"]
         ELSE UNCHANGED <<closeRejected, outCtx>>
    /\ isConnected' = FALSE
    /\ status' = "Disconnected"
    /\ lastOp' = "disconnect"
    /\ UNCHANGED <<audioContextRef, nextStartTimeRef, sessionPromiseRef, nSessions,
                   session, ctxTime, capCtx, mic, chunks, resolved, sent, nFrames,
                   audioVolume, views>>

\* A button that offers connect only while the status line reads
\* 'Disconnected' (not what lines 166-171 do).
ClickConnectWhenDisconnected == status = "Disconnected" /\ connect

\* A control that runs connect() whatever isConnected says (not what lines
\* 166-171 do).
ClickConnectAlways == connect

\* The button (lines 166-171): onClick={isConnected ? disconnect : connect}.
ClickConnect == ~isConnected /\ connect

ClickConnectFail == ~isConnected /\ connectFail

ClickDisconnect == isConnected /\ disconnect

\* ---------------------------------------------------- session callbacks
\* onopen (lines 82-87) runs startAudioStream up to its first await: the
\* 16 kHz context is created (line 17) and getUserMedia is requested (line 18).
onopen(k) ==
    /\ session[k] = "opening"
    /\ session' = [session EXCEPT ![k] = "open"]
    /\ status' = "Live"
    /\ isConnected' = TRUE
    /\ capCtx' = [capCtx EXCEPT ![k] = "running"]
    /\ mic' = [mic EXCEPT ![k] = "pending"]
    /\ lastOp' = "onopen"
    /\ UNCHANGED <<audioContextRef, nextStartTimeRef, sessionPromiseRef, nSessions,
                   closeReq, outCtx, ctxTime, chunks, closeRejected, outbound, views>>

\* getUserMedia resolves: lines 19-59 build the capture graph.  The cleanup
\* closure returned at line 54 is dropped by the caller (line 86).
micGranted(k) ==
    /\ mic[k] = "pending"
    /\ mic' = [mic EXCEPT ![k] = "acquired"]
    /\ lastOp' = "micGranted"
    /\ UNCHANGED <<status, isConnected, audioContextRef, nextStartTimeRef,
                   sessionPromiseRef, nSessions, session, closeReq, outCtx, ctxTime,
                   capCtx, chunks, closeRejected, outbound, views>>

\* getUserMedia rejects: startAudioStream and onopen reject; nobody catches
\* (the try of connect, lines 63-127, has returned long before).
micDenied(k) ==
    /\ mic[k] = "pending"
    /\ mic' = [mic EXCEPT ![k] = "denied"]
    /\ lastOp' = "micDenied"
    /\ UNCHANGED <<status, isConnected, audioContextRef, nextStartTimeRef,
                   sessionPromiseRef, nSessions, session, closeReq, outCtx, ctxTime,
                   capCtx, chunks, closeRejected, outbound, views>>

\* onclose (lines 111-114).
onclose(k) ==
    /\ session[k] \in {"open", "errored"}
    /\ session' = [session EXCEPT ![k] = "closed"]
    /\ status' = "Disconnected"
    /\ isConnected' = FALSE
    /\ lastOp' = "onclose"
    /\ UNCHANGED <<audioContextRef, nextStartTimeRef, sessionPromiseRef, nSessions,
                   closeReq, outCtx, ctxTime, capCtx, mic, chunks,
                   closeRejected, outbound, views>>

\* An onerror that opens a new session by itself (not what lines 115-119 do).
onerrorRetrying(k) ==
    /\ session[k] \in {"opening", "open"}
    /\ isConnected' = FALSE
    /\ lastOp' = "onerror"
    /\ IF nSessions < MaxSessions
         THEN LET n == nSessions + 1 IN
              /\ session' = [session EXCEPT ![k] = "errored", ![n] = "opening"]
              /\ status' = "Connecting..."
              /\ outCtx' = [outCtx EXCEPT ![n] = "running"]
              /\ ctxTime' = [ctxTime EXCEPT ![n] = 0]
              /\ audioContextRef' = n
              /\ nextStartTimeRef' = 0
              /\ sessionPromiseRef' = n
              /\ nSessions' = n
         ELSE /\ session' = [session EXCEPT ![k] = "errored"]
              /\ status' = "Error"
              /\ UNCHANGED <<outCtx, ctxTime, audioContextRef, nextStartTimeRef,
                             sessionPromiseRef, nSessions>>
    /\ UNCHANGED <<closeReq, capCtx, mic, chunks, closeRejected, outbound, views>>

\* onerror (lines 115-119).
onerror(k) ==
    /\ session[k] \in {"opening", "open"}
    /\ session' = [session EXCEPT ![k] = "errored"]
    /\ status' = "Error"
    /\ isConnected' = FALSE
    /\ lastOp' = "onerror"
    /\ UNCHANGED <<audioContextRef, nextStartTimeRef, sessionPromiseRef, nSessions,
                   closeReq, outCtx, ctxTime, capCtx, mic, chunks,
                   closeRejected, outbound, views>>

\* ------------------------------------------------------- outbound frames
\* The frames among q, last registered first (not the order of a promise).
RunReactionsReversed(q) ==
    LET f == SelectSeq(q, LAMBDA e : e > 0)
    IN  [i \in 1..Len(f) |-> f[Len(f) + 1 - i]]

\* The frames among the reactions q, in the order the promise runs them:
\* reactions of one promise run in the order they were registered.
RunReactions(q) == SelectSeq(q, LAMBDA e : e > 0)

\* The promise returned by ai.live.connect (line 72) resolves once the
\* session has opened; every reaction registered so far then runs.
promiseResolved(k) ==
    /\ k \notin resolved
    /\ capCtx[k] = "running"
    /\ resolved' = resolved \cup {k}
    /\ sent' = [sent EXCEPT ![k] = @ \o RunReactions(reactions[k])]
    /\ reactions' = [reactions EXCEPT ![k] = <<>>]
    /\ lastOp' = "promiseResolved"
    /\ UNCHANGED <<status, isConnected, audioContextRef, nextStartTimeRef,
                   sessionPromiseRef, nSessions, session, closeReq, outCtx, ctxTime,
                   capCtx, mic, chunks, closeRejected, nFrames, audioVolume, views>>

\* processor.onaudioprocess (lines 36-49): encode the frame and register the
\* send on the session promise given to startAudioStream.  The graph is never
\* torn down (the cleanup of lines 54-59 is never called), so it fires as
\* long as the microphone has been granted.
onaudioprocess(k) ==
    /\ mic[k] = "acquired"
    /\ LET f == nFrames[k] + 1 IN
        /\ nFrames' = [nFrames EXCEPT ![k] = f]
        /\ IF k \in resolved
             THEN /\ sent' = [sent EXCEPT ![k] = Append(@, f)]
                  /\ UNCHANGED reactions
             ELSE /\ reactions' = [reactions EXCEPT ![k] = Append(@, f)]
                  /\ UNCHANGED sent
    /\ lastOp' = "onaudioprocess"
    /\ UNCHANGED <<status, isConnected, audioContextRef, nextStartTimeRef,
                   sessionPromiseRef, nSessions, session, closeReq, outCtx, ctxTime,
                   capCtx, mic, chunks, closeRejected, resolved, audioVolume, views>>

\* updateVol (lines 25-31), rescheduled by requestAnimationFrame while the
\* capture context is not closed.
updateVol(k, avg) ==
    /\ mic[k] = "acquired"
    /\ capCtx[k] = "running"
    /\ audioVolume' = avg
    /\ lastOp' = "updateVol"
    /\ UNCHANGED <<status, isConnected, audioContextRef, nextStartTimeRef,
                   sessionPromiseRef, nSessions, session, closeReq, outCtx, ctxTime,
                   capCtx, mic, chunks, closeRejected, resolved, reactions, sent,
                   nFrames, views>>

\* ------------------------------------------------------------ onmessage
\* decodeAudioData (../utils/audioUtils, imported at line 3): the decoded
\* buffer, or a rejection when the bytes are not decodable 16-bit PCM.
decodeAudioData(p) ==
    IF p.kind = "pcm" THEN [ok |-> TRUE, duration |-> p.dur]
    ELSE [ok |-> FALSE, duration |-> 0]

\* The record kept of a message whose handler ended in an exception.
DroppedChunk ==
    [sess |-> 0, ctx |-> 0, pl |-> [kind |-> "none", dur |-> 0], st |-> "dropped",
     arr |-> 0, start |-> 0, ord |-> 0]

\* Number of source.start calls made so far.
NStarted == Cardinality({i \in DOMAIN chunks : chunks[i].st = "scheduled"})

\* onmessage up to its await (lines 88-98): the guard of line 90, atob, and
\* the context captured at line 91.
onmessage(k, p) ==
    /\ session[k] = "open"
    /\ IF p.kind = "none" \/ audioContextRef = 0
         THEN /\ lastOp' = "msgIgnored"
              /\ UNCHANGED chunks
         ELSE /\ chunks' = Append(chunks,
                    IF p.kind = "badB64" THEN DroppedChunk
                    ELSE [sess |-> k, ctx |-> audioContextRef, pl |-> p,
                          st |-> "decoding", arr |-> ctxTime[audioContextRef],
                          start |-> 0, ord |-> 0])
              /\ lastOp' = IF p.kind = "badB64" THEN "msgDropped" ELSE "msgReceived"
    /\ UNCHANGED <<status, isConnected, audioContextRef, nextStartTimeRef,
                   sessionPromiseRef, nSessions, session, closeReq, outCtx, ctxTime,
                   capCtx, mic, closeRejected, outbound, views>>

\* A handler that treats an undecodable chunk as an empty buffer and schedules it.
decodeRejectedAsEmpty(i) ==
    /\ chunks' = [chunks EXCEPT ![i] = DroppedChunk]
    /\ nextStartTimeRef' = Max(ctxTime[chunks[i].ctx], nextStartTimeRef)
    /\ lastOp' = "decodeRejected"
    /\ UNCHANGED <<status, isConnected, audioContextRef, sessionPromiseRef, nSessions,
                   session, closeReq, outCtx, ctxTime, capCtx, mic, closeRejected, outbound, views>>

\* The await of line 92 rejects: the handler ends there.
decodeRejected(i) ==
    /\ chunks' = [chunks EXCEPT ![i] = DroppedChunk]
    /\ lastOp' = "decodeRejected"
    /\ UNCHANGED <<status, isConnected, audioContextRef, nextStartTimeRef,
                   sessionPromiseRef, nSessions, session, closeReq, outCtx, ctxTime,
                   capCtx, mic, closeRejected, outbound, views>>

\* Lines 100-108: the scheduler, one synchronous step.  The handler uses the
\* context it captured at line 91 and never looks at that context's state or
\* at the session: it also runs after disconnect() or onclose.
schedule(i, duration) ==
    LET now == ctxTime[chunks[i].ctx]
        start == Max(now, nextStartTimeRef)
    IN  /\ chunks' = [chunks EXCEPT ![i].st = "scheduled", ![i].start = start,
                                    ![i].ord = NStarted + 1]
        /\ nextStartTimeRef' = start + duration
        /\ lastOp' = "schedule"
        /\ UNCHANGED <<status, isConnected, audioContextRef, sessionPromiseRef,
                       nSessions, session, closeReq, outCtx, ctxTime, capCtx, mic,
                       closeRejected, outbound, views>>

\* onmessage after its await (lines 92-109), for any handler still waiting:
\* nothing in the handler orders the resumptions of two suspended calls.
onmessageResume(i) ==
    /\ chunks[i].st = "decoding"
    /\ LET buffer == decodeAudioData(chunks[i].pl) IN
         IF buffer.ok THEN schedule(i, buffer.duration) ELSE decodeRejected(i)

\* The output devices' clocks advance together.
Tick ==
    /\ \E k \in Sessions : outCtx[k] = "running"
    /\ \A k \in Sessions : outCtx[k] = "running" => ctxTime[k] < MaxTime
    /\ ctxTime' = [k \in Sessions |->
                      IF outCtx[k] = "running" THEN ctxTime[k] + 1 ELSE ctxTime[k]]
    /\ lastOp' = "tick"
    /\ UNCHANGED <<status, isConnected, audioContextRef, nextStartTimeRef,
                   sessionPromiseRef, nSessions, session, closeReq, outCtx, capCtx,
                   mic, chunks, closeRejected, outbound, views>>

\* Session lifecycle and microphone capture: every handler of LiveView except
\* the inbound audio path (no message carries audio, so chunks stays empty).
NextLifecycle ==
    \/ ClickConnect
    \/ ClickConnectFail
    \/ ClickDisconnect
    \/ \E k \in Sessions : onopen(k)
    \/ \E k \in Sessions : micGranted(k)
    \/ \E k \in Sessions : micDenied(k)
    \/ \E k \in Sessions : onclose(k)
    \/ \E k \in Sessions : onerror(k)

SpecLifecycle == Init /\ [][NextLifecycle]_vars

\* Session lifecycle and inbound playback with overlapping sessions: the user
\* never answers the microphone prompt (mic stays "pending") and no
\* constructor throws.
NextPlayback ==
    \/ nSessions < MaxOverlap /\ ClickConnect
    \/ ClickDisconnect
    \/ \E k \in Sessions : onopen(k)
    \/ \E k \in Sessions : onclose(k)
    \/ \E k \in Sessions : onerror(k)
    \/ \E k \in Sessions, p \in Payloads : Len(chunks) < OverlapChunks /\ onmessage(k, p)
    \/ \E i \in 1..Len(chunks) : onmessageResume(i)
    \/ Tick

SpecPlayback == Init /\ [][NextPlayback]_vars

\* One call of connect() and the burst of audio messages its session delivers.
NextBurst ==
    \/ nSessions = 0 /\ ClickConnect
    \/ ClickDisconnect
    \/ \E k \in Sessions : onopen(k)
    \/ \E k \in Sessions : onclose(k)
    \/ \E k \in Sessions : onerror(k)
    \/ \E k \in Sessions, p \in Payloads : Len(chunks) < BurstChunks /\ onmessage(k, p)
    \/ \E i \in 1..Len(chunks) : onmessageResume(i)
    \/ Tick

SpecBurst == Init /\ [][NextBurst]_vars

\* Further connect() calls while the chunks of an open session are in
\* flight; the user never clicks 'End Session'.
NextReconnect ==
    \/ nSessions < ReconnectSessions /\ ClickConnect
    \/ \E k \in Sessions : onopen(k)
    \/ \E k \in Sessions : onerror(k)
    \/ \E k \in Sessions, p \in Payloads : Len(chunks) < ReconnectChunks /\ onmessage(k, p)
    \/ \E i \in 1..Len(chunks) : onmessageResume(i)
    \/ Tick

SpecReconnect == Init /\ [][NextReconnect]_vars

\* Frames captured so far by all capture graphs.
TotalFrames ==
    LET RECURSIVE Sum(_)
        Sum(k) == IF k = 0 THEN 0 ELSE nFrames[k] + Sum(k - 1)
    IN  Sum(MaxSessions)

\* Both directions at once: capture and send, receive and schedule.
NextDuplex ==
    \/ nSessions < DuplexSessions /\ ClickConnect
    \/ ClickDisconnect
    \/ \E k \in Sessions : onopen(k)
    \/ \E k \in Sessions : promiseResolved(k)
    \/ \E k \in Sessions : micGranted(k)
    \/ \E k \in Sessions : micDenied(k)
    \/ \E k \in Sessions : onclose(k)
    \/ \E k \in Sessions : onerror(k)
    \/ \E k \in Sessions : TotalFrames < MaxFrames /\ onaudioprocess(k)
    \/ \E k \in Sessions, avg \in 0..MaxVolume : updateVol(k, avg)
    \/ \E k \in Sessions, p \in Payloads : Len(chunks) < DuplexChunks /\ onmessage(k, p)
    \/ \E i \in 1..Len(chunks) : onmessageResume(i)

SpecDuplex == Init /\ [][NextDuplex]_vars

\* The capture side alone: sessions, microphone, frames, promise reactions.
NextCapture ==
    \/ nSessions < CaptureSessions /\ ClickConnect
    \/ ClickDisconnect
    \/ \E k \in Sessions : onopen(k)
    \/ \E k \in Sessions : promiseResolved(k)
    \/ \E k \in Sessions : micGranted(k)
    \/ \E k \in Sessions : micDenied(k)
    \/ \E k \in Sessions : onclose(k)
    \/ \E k \in Sessions : onerror(k)
    \/ \E k \in Sessions : TotalFrames < MaxFrames /\ onaudioprocess(k)

SpecCapture == Init /\ [][NextCapture]_vars

\* ----------------------------------------------------------------------
\* ChatView (src/types.ts, lines 42-195)
\* ----------------------------------------------------------------------

\* onChange (line 182): the box holds non-blank text (b) or not.
onChange(b) ==
    /\ input' = b
    /\ lastOp' = "onChange"
    /\ UNCHANGED <<messages, isLoading, chatReqs, nChat, live, studio, vision>>

\* handleSend up to its await (lines 57-80): blank input returns at once.
\* The geolocation await of maps mode (lines 66-76) writes no state and is
\* part of the time the request is in flight.
handleSend ==
    /\ input
    /\ LET r == nChat + 1 IN
        /\ messages' = Append(messages, [role |-> "user", req |-> r])
        /\ chatReqs' = chatReqs \cup {r}
        /\ nChat' = r
    /\ input' = FALSE
    /\ isLoading' = TRUE
    /\ lastOp' = "handleSend"
    /\ UNCHANGED <<live, studio, vision>>

\* The send button (lines 185-188) is disabled while loading; the Enter key
\* (line 183) is not.
ClickSend == ~isLoading /\ handleSend

PressEnter == handleSend

\* sendChatMessage resolves: lines 92-107 and the finally block.
sendChatMessageResolved(r) ==
    /\ r \in chatReqs
    /\ messages' = Append(messages, [role |-> "model", req |-> r])
    /\ chatReqs' = chatReqs \ {r}
    /\ isLoading' = FALSE
    /\ lastOp' = "sendChatMessageResolved"
    /\ UNCHANGED <<input, nChat, live, studio, vision>>

\* sendChatMessage rejects: the catch (lines 109-110) and the finally block.
sendChatMessageRejected(r) ==
    /\ r \in chatReqs
    /\ messages' = Append(messages, [role |-> "error", req |-> r])
    /\ chatReqs' = chatReqs \ {r}
    /\ isLoading' = FALSE
    /\ lastOp' = "sendChatMessageRejected"
    /\ UNCHANGED <<input, nChat, live, studio, vision>>

NextChat ==
    \/ \E b \in BOOLEAN : onChange(b)
    \/ nChat < MaxChat /\ ClickSend
    \/ nChat < MaxChat /\ PressEnter
    \/ \E r \in 1..MaxChat : sendChatMessageResolved(r)
    \/ \E r \in 1..MaxChat : sendChatMessageRejected(r)

SpecChat == Init /\ [][NextChat]_vars

\* ----------------------------------------------------------------------
\* StudioView (src/components/LiveView.tsx, lines 176-338) and generateVideo
\* (src/unnamed/part_000, lines 88-133)
\* ----------------------------------------------------------------------

StudioModes == {"image", "video", "tts"}

\* The handleGenerate calls that have neither returned nor thrown.
GenInFlight == {g \in gen : g.pc \notin {"returned", "threw"}}

\* onChange of the prompt box (line 261).
setPrompt(b) ==
    /\ prompt' = b
    /\ lastOp' = "setPrompt"
    /\ UNCHANGED <<mode, studioLoading, result, alerts, gen, nGen, live, chat, vision>>

\* The mode buttons (lines 243-249); they are not disabled while loading.
setMode(m) ==
    /\ mode' = m
    /\ result' = NoResult
    /\ prompt' = FALSE
    /\ lastOp' = "setMode"
    /\ UNCHANGED <<studioLoading, alerts, gen, nGen, live, chat, vision>>

\* handleGenerate up to its first await (lines 192-201): the service call of
\* the current mode has been issued.
handleGenerate ==
    /\ prompt \/ mode = "video"
    /\ studioLoading' = TRUE
    /\ result' = NoResult
    /\ LET r == nGen + 1 IN
        /\ nGen' = r
        /\ gen' = gen \cup
              {[req |-> r, mode |-> mode,
                pc |-> CASE mode = "image" -> "generateImage"
                         [] mode = "video" -> "generateVideos"
                         [] OTHER -> "generateSpeech",
                done |-> FALSE, uri |-> FALSE, polls |-> 0, fetched |-> 0,
                error |-> "none"]}
    /\ lastOp' = "handleGenerate"
    /\ UNCHANGED <<mode, prompt, alerts, live, chat, vision>>

\* The generate button (lines 308-311).
ClickGenerate == ~studioLoading /\ (mode = "video" \/ prompt) /\ handleGenerate

\* The awaited service call returned res: setResult(res), then finally.
GenReturned(g, h) ==
    /\ gen' = (gen \ {g}) \cup {[h EXCEPT !.pc = "returned"]}
    /\ result' = [kind |-> "url", req |-> g.req, mode |-> g.mode]
    /\ studioLoading' = FALSE
    /\ UNCHANGED alerts

\* The awaited call threw e: the catch (lines 218-220), then finally.
GenThrew(g, h, e) ==
    /\ gen' = (gen \ {g}) \cup {[h EXCEPT !.pc = "threw", !.error = e]}
    /\ alerts' = alerts \cup {g.req}
    /\ studioLoading' = FALSE
    /\ UNCHANGED result

generateImageResolved(g) ==
    /\ g \in gen /\ g.pc = "generateImage"
    /\ GenReturned(g, g)
    /\ lastOp' = "generateImageResolved"
    /\ UNCHANGED <<mode, prompt, nGen, live, chat, vision>>

generateImageRejected(g) ==
    /\ g \in gen /\ g.pc = "generateImage"
    /\ GenThrew(g, g, "rejected")
    /\ lastOp' = "generateImageRejected"
    /\ UNCHANGED <<mode, prompt, nGen, live, chat, vision>>

\* generateSpeech resolved (lines 205-212): setResult(null), a new context,
\* and the decode is awaited.
generateSpeechResolved(g) ==
    /\ g \in gen /\ g.pc = "generateSpeech"
    /\ gen' = (gen \ {g}) \cup {[g EXCEPT !.pc = "decodeAudioData"]}
    /\ result' = NoResult
    /\ lastOp' = "generateSpeechResolved"
    /\ UNCHANGED <<mode, prompt, studioLoading, alerts, nGen, live, chat, vision>>

\* The decode resolved (lines 213-216): the buffer is started, then finally.
speechDecoded(g) ==
    /\ g \in gen /\ g.pc = "decodeAudioData"
    /\ gen' = (gen \ {g}) \cup {[g EXCEPT !.pc = "returned"]}
    /\ studioLoading' = FALSE
    /\ lastOp' = "speechDecoded"
    /\ UNCHANGED <<mode, prompt, result, alerts, nGen, live, chat, vision>>

\* generateSpeech rejected, atob threw, or the decode rejected.
generateSpeechRejected(g) ==
    /\ g \in gen /\ g.pc \in {"generateSpeech", "decodeAudioData"}
    /\ GenThrew(g, g, "rejected")
    /\ lastOp' = "generateSpeechRejected"
    /\ UNCHANGED <<mode, prompt, nGen, live, chat, vision>>

\* A generateVideo that fetches after the first answer, whatever it says
\* (not what lines 121-127 do).
AfterOperationNoTest(g, d, u) ==
    /\ gen' = (gen \ {g}) \cup
            {[g EXCEPT !.pc = "fetch", !.done = d, !.uri = (d /\ u), !.fetched = @ + 1]}
    /\ UNCHANGED <<result, alerts, studioLoading>>

\* A generateVideo that gives up when a poll still reports not-done (not
\* what lines 120-124 do).
AfterOperationGivingUp(g, d, u) ==
    IF ~d
      THEN IF g.polls = 0
             THEN /\ gen' = (gen \ {g}) \cup {[g EXCEPT !.pc = "setTimeout", !.done = FALSE]}
                  /\ UNCHANGED <<result, alerts, studioLoading>>
             ELSE GenThrew(g, g, "timed out")
      ELSE IF ~u
        THEN GenThrew(g, [g EXCEPT !.done = TRUE, !.uri = FALSE], "Video generation failed")
        ELSE /\ gen' = (gen \ {g}) \cup
                    {[g EXCEPT !.pc = "fetch", !.done = TRUE, !.uri = TRUE,
                               !.fetched = @ + 1]}
             /\ UNCHANGED <<result, alerts, studioLoading>>

\* ---- generateVideo (src/unnamed/part_000, lines 88-133)
\* The operation object was (re)assigned with done = d and, when done, with
\* a video URI or not (u): the loop test of line 121, then lines 126-130.
AfterOperation(g, d, u) ==
    IF ~d
      THEN /\ gen' = (gen \ {g}) \cup {[g EXCEPT !.pc = "setTimeout", !.done = FALSE]}
           /\ UNCHANGED <<result, alerts, studioLoading>>
      ELSE IF ~u
        THEN GenThrew(g, [g EXCEPT !.done = TRUE, !.uri = FALSE], "Video generation failed")
        ELSE /\ gen' = (gen \ {g}) \cup
                    {[g EXCEPT !.pc = "fetch", !.done = TRUE, !.uri = TRUE,
                               !.fetched = @ + 1]}
             /\ UNCHANGED <<result, alerts, studioLoading>>

\* ai.models.generateVideos resolved (lines 100-118).
generateVideosResolved(g, d, u) ==
    /\ g \in gen /\ g.pc = "generateVideos"
    /\ AfterOperation(g, d, u)
    /\ lastOp' = "generateVideosResolved"
    /\ UNCHANGED <<mode, prompt, nGen, live, chat, vision>>

\* The 5 s timer of line 122 fired: getVideosOperation is called (line 123).
setTimeoutFired(g) ==
    /\ g \in gen /\ g.pc = "setTimeout"
    /\ gen' = (gen \ {g}) \cup {[g EXCEPT !.pc = "getVideosOperation", !.polls = @ + 1]}
    /\ lastOp' = "setTimeoutFired"
    /\ UNCHANGED <<mode, prompt, studioLoading, result, alerts, nGen, live, chat, vision>>

\* getVideosOperation resolved (line 123).
getVideosOperationResolved(g, d, u) ==
    /\ g \in gen /\ g.pc = "getVideosOperation"
    /\ AfterOperation(g, d, u)
    /\ lastOp' = "getVideosOperationResolved"
    /\ UNCHANGED <<mode, prompt, nGen, live, chat, vision>>

\* fetch resolved (line 130): the body is read (line 131).
fetchResolved(g) ==
    /\ g \in gen /\ g.pc = "fetch"
    /\ gen' = (gen \ {g}) \cup {[g EXCEPT !.pc = "blob"]}
    /\ lastOp' = "fetchResolved"
    /\ UNCHANGED <<mode, prompt, studioLoading, result, alerts, nGen, live, chat, vision>>

\* blob() resolved (lines 131-132): generateVideo returns the object URL.
blobResolved(g) ==
    /\ g \in gen /\ g.pc = "blob"
    /\ GenReturned(g, g)
    /\ lastOp' = "blobResolved"
    /\ UNCHANGED <<mode, prompt, nGen, live, chat, vision>>

\* One of the awaited remote calls of generateVideo rejected.
generateVideoRejected(g) ==
    /\ g \in gen /\ g.pc \in {"generateVideos", "getVideosOperation", "fetch", "blob"}
    /\ GenThrew(g, g, "rejected")
    /\ lastOp' = "generateVideoRejected"
    /\ UNCHANGED <<mode, prompt, nGen, live, chat, vision>>

\* A poll may be started while fewer than MaxPolls were made.
NextStudio ==
    \/ \E b \in BOOLEAN : setPrompt(b)
    \/ \E m \in StudioModes : setMode(m)
    \/ nGen < MaxGen /\ ClickGenerate
    \/ \E g \in gen : generateImageResolved(g)
    \/ \E g \in gen : generateImageRejected(g)
    \/ \E g \in gen : generateSpeechResolved(g)
    \/ \E g \in gen : speechDecoded(g)
    \/ \E g \in gen : generateSpeechRejected(g)
    \/ \E g \in gen, d, u \in BOOLEAN : generateVideosResolved(g, d, u)
    \/ \E g \in gen : g.polls < MaxPolls /\ setTimeoutFired(g)
    \/ \E g \in gen, d, u \in BOOLEAN : getVideosOperationResolved(g, d, u)
    \/ \E g \in gen : fetchResolved(g)
    \/ \E g \in gen : blobResolved(g)
    \/ \E g \in gen : generateVideoRejected(g)

SpecStudio == Init /\ [][NextStudio]_vars

\* The next step of the generateVideo call made by request r: its timer
\* fires or the remote call it awaits settles.
VideoStep(r) ==
    \E g \in gen :
        /\ g.req = r
        /\ \/ \E d, u \in BOOLEAN : generateVideosResolved(g, d, u)
           \/ g.polls < MaxPolls /\ setTimeoutFired(g)
           \/ \E d, u \in BOOLEAN : getVideosOperationResolved(g, d, u)
           \/ fetchResolved(g)
           \/ blobResolved(g)
           \/ generateVideoRejected(g)

\* StudioView when every timer fires and every awaited remote call settles.
SpecStudioFair ==
    Init /\ [][NextStudio]_vars /\ \A r \in 1..MaxGen : WF_vars(VideoStep(r))

\* ----------------------------------------------------------------------
\* VisionView (src/components/VisionView.tsx)
\* ----------------------------------------------------------------------

VisionTabs == {"analyze", "edit", "audio"}

FileTypes == {"image", "video", "audio"}

\* The handleAction calls that have not finished.
ActInFlight == {a \in act : a.pc = "awaiting"}

\* The tab buttons (lines 67-69); they are not disabled while loading.
setActiveTab(t) ==
    /\ activeTab' = t
    /\ output' = NoOutput
    /\ lastOp' = "setActiveTab"
    /\ UNCHANGED <<file, preview, reading, visionLoading, act, nAct, live, chat, studio>>

\* handleFile (lines 12-29): the file is stored and a reader started; for an
\* audio file the preview is cleared until the reader has loaded.
handleFile(f) ==
    /\ file' = f
    /\ reading' = TRUE
    /\ preview' = IF f = "audio" THEN FALSE ELSE preview
    /\ output' = NoOutput
    /\ lastOp' = "handleFile"
    /\ UNCHANGED <<activeTab, visionLoading, act, nAct, live, chat, studio>>

\* reader.onloadend (line 17).
onloadend ==
    /\ reading
    /\ reading' = FALSE
    /\ preview' = TRUE
    /\ lastOp' = "onloadend"
    /\ UNCHANGED <<activeTab, file, output, visionLoading, act, nAct, live, chat, studio>>

\* The remove button (lines 104-108).
removeFile ==
    /\ file # "none"
    /\ file' = "none"
    /\ preview' = FALSE
    /\ lastOp' = "removeFile"
    /\ UNCHANGED <<activeTab, reading, output, visionLoading, act, nAct, live, chat, studio>>

\* The service call handleAction makes for the current tab and file type
\* (lines 36-53); the analyze tab issues none for an audio file.
ActionOp ==
    CASE activeTab = "analyze" /\ file = "image" -> "analyzeImage"
      [] activeTab = "analyze" /\ file = "video" -> "analyzeVideo"
      [] activeTab = "edit" -> "editImage"
      [] activeTab = "audio" -> "transcribeAudio"
      [] OTHER -> "none"

\* handleAction up to its await (lines 31-53); without a service call the
\* finally block runs in the same step.
handleAction ==
    /\ file # "none" /\ preview
    /\ LET r == nAct + 1 IN
        /\ nAct' = r
        /\ act' = act \cup {[req |-> r, tab |-> activeTab, op |-> ActionOp,
                              pc |-> IF ActionOp = "none" THEN "returned" ELSE "awaiting"]}
    /\ visionLoading' = (ActionOp # "none")
    /\ lastOp' = "handleAction"
    /\ UNCHANGED <<activeTab, file, preview, reading, output, live, chat, studio>>

\* The action button (lines 122-125).
ClickAction == file # "none" /\ ~visionLoading /\ handleAction

\* The awaited service call resolved: setOutput with a text, or with an image
\* URL for editImage; then finally.
actionResolved(a) ==
    /\ a \in act /\ a.pc = "awaiting"
    /\ act' = (act \ {a}) \cup {[a EXCEPT !.pc = "returned"]}
    /\ output' = [kind |-> IF a.op = "editImage" THEN "image" ELSE "text",
                   req |-> a.req, tab |-> a.tab]
    /\ visionLoading' = FALSE
    /\ lastOp' = "actionResolved"
    /\ UNCHANGED <<activeTab, file, preview, reading, nAct, live, chat, studio>>

\* The awaited service call rejected: the catch (lines 55-57) stores
\* "Error processing request. ..." in output; then finally.
actionRejected(a) ==
    /\ a \in act /\ a.pc = "awaiting"
    /\ act' = (act \ {a}) \cup {[a EXCEPT !.pc = "threw"]}
    /\ output' = [kind |-> "error", req |-> a.req, tab |-> a.tab]
    /\ visionLoading' = FALSE
    /\ lastOp' = "actionRejected"
    /\ UNCHANGED <<activeTab, file, preview, reading, nAct, live, chat, studio>>

\* What the result column renders (lines 146-163).
VisionShown ==
    IF visionLoading THEN "spinner"
    ELSE IF output = NoOutput THEN "placeholder"
    ELSE IF activeTab = "edit" THEN "img"
    ELSE "text"

NextVision ==
    \/ \E t \in VisionTabs : setActiveTab(t)
    \/ \E f \in FileTypes : handleFile(f)
    \/ onloadend
    \/ removeFile
    \/ nAct < MaxAct /\ ClickAction
    \/ \E a \in act : actionResolved(a)
    \/ \E a \in act : actionRejected(a)

SpecVision == Init /\ [][NextVision]_vars

\* ----------------------------------------------------------------------
\* Properties
\* ----------------------------------------------------------------------

\* A remote session that is open or being opened.
Active(k) == session[k] \in {"opening", "open"}

\* No microphone stream, capture context or output context is held.
NoDeviceHandle ==
    \A k \in Sessions :
        mic[k] \notin {"pending", "acquired"} /\ capCtx[k] = "none" /\ outCtx[k] # "running"

\* C1: at every reachable state at most one remote live session is open or
\* being opened (a connect() while Connecting or Live creates no second one).
C1_SingleActiveSession == Cardinality({k \in Sessions : Active(k)}) <= 1

\* C2: no step taken while a session stays open and has not been asked to
\* close (a further connect() included) lowers nextStartTime.
C2_ClockMonotonic ==
    [][(\E k \in Sessions :
            session[k] = "open" /\ session'[k] = "open" /\ k \notin closeReq')
         => nextStartTimeRef' >= nextStartTimeRef]_vars

\* C3: capture resources (microphone stream, 16 kHz context, processor) are
\* held exactly when status is 'Live': none is held in any other status, and
\* while Live the capture graph is acquired or being acquired.
C3_CaptureIffLive ==
    /\ status # "Live" =>
          \A k \in Sessions : mic[k] \notin {"pending", "acquired"} /\ capCtx[k] = "none"
    /\ status = "Live" =>
          \E k \in Sessions : mic[k] \in {"pending", "acquired"} /\ capCtx[k] = "running"

\* C4: chunks of one session are started in arrival order: when a later
\* chunk has been started, every decodable earlier chunk was started before
\* it, at a start time that is not later.
C4_ArrivalOrder ==
    \A i, j \in DOMAIN chunks :
        (/\ i < j
         /\ chunks[i].sess = chunks[j].sess
         /\ chunks[i].pl.kind = "pcm"
         /\ chunks[j].st = "scheduled")
        => /\ chunks[i].st = "scheduled"
           /\ chunks[i].ord < chunks[j].ord
           /\ chunks[i].start <= chunks[j].start

\* C5: three chunks of one session that all arrived (in this order) before
\* the first one finished playing on a running output context are started
\* back to back: s2 = s1 + d1 and s3 = s2 + d2.
C5_GaplessBurst ==
    (/\ Len(chunks) = 3
     /\ \A i \in 1..3 : chunks[i].st = "scheduled" /\ chunks[i].sess = chunks[1].sess
     /\ outCtx[chunks[1].ctx] = "running"
     /\ chunks[2].arr < chunks[1].start + chunks[1].pl.dur
     /\ chunks[3].arr < chunks[1].start + chunks[1].pl.dur)
    => /\ chunks[2].start = chunks[1].start + chunks[1].pl.dur
       /\ chunks[3].start = chunks[2].start + chunks[2].pl.dur

\* C6: after any run of disconnect(), repeated ones included, no close() call
\* was rejected and no device handle remains acquired.
C6_IdempotentTeardown ==
    lastOp = "disconnect" => ~closeRejected /\ NoDeviceHandle

\* C7: disconnect() is offered in every non-Disconnected state (Connecting,
\* Live, Error) and, once taken, has requested closure of the session, closed
\* the output context, stopped microphone capture and left status Disconnected.
C7_DisconnectAvailable ==
    /\ status \in {"Connecting...", "Live", "Error"} => isConnected
    /\ lastOp = "disconnect" =>
          /\ sessionPromiseRef # 0 => sessionPromiseRef \in closeReq
          /\ audioContextRef # 0 => outCtx[audioContextRef] = "closed"
          /\ \A k \in Sessions : mic[k] \notin {"pending", "acquired"}
          /\ status = "Disconnected"

\* C8: a session error leaves the view in Error with every audio resource
\* acquired so far (microphone, capture graph, output context) released.
C8_ErrorReleasesAll ==
    lastOp = "onerror" => status = "Error" /\ ~isConnected /\ NoDeviceHandle

\* C9: when getUserMedia rejects, the view does not stay Live and the capture
\* context created before the request is not left open.
C9_MicDenialAborts ==
    lastOp = "micDenied" =>
        /\ status \in {"Error", "Disconnected"}
        /\ ~isConnected
        /\ \A k \in Sessions : mic[k] = "denied" => capCtx[k] = "none"

\* C10: the step that drops an undecodable chunk (atob throws, or the decode
\* rejects) leaves nextStartTime, the set of started buffers, the status and
\* every other handler's state exactly as they were, so later chunks are
\* decoded and scheduled as if the bad chunk had never arrived.
C10_DropLeavesClock ==
    [][lastOp' \in {"msgDropped", "decodeRejected"} =>
          /\ nextStartTimeRef' = nextStartTimeRef
          /\ status' = status /\ isConnected' = isConnected
          /\ session' = session /\ audioContextRef' = audioContextRef
          /\ outCtx' = outCtx /\ ctxTime' = ctxTime
          /\ \A i \in DOMAIN chunks :
                chunks'[i] = chunks[i]
                \/ (chunks[i].st = "decoding" /\ chunks'[i].st = "dropped")
          /\ \A i \in DOMAIN chunks' \ DOMAIN chunks : chunks'[i].st = "dropped"]_vars

\* A bad-base64 chunk was dropped, the next chunk was decoded and started, and
\* a third, PCM-undecodable chunk has just been dropped while the device clock
\* is ahead of the playback clock.
C10_Witness ==
    /\ lastOp = "decodeRejected"
    /\ status = "Live"
    /\ Len(chunks) >= 3
    /\ chunks[1].st = "dropped" /\ chunks[2].st = "scheduled" /\ chunks[3].st = "dropped"
    /\ \E k \in Sessions : outCtx[k] = "running" /\ ctxTime[k] > nextStartTimeRef

\* Session k has been torn down: disconnect() has run on it, or it has
\* reported an error or a close.
TornDown(k) == k \in closeReq \/ session[k] \in {"errored", "closed"}

\* C11: once disconnect() has run on a session or the session has failed, no
\* further frame of it is passed to sendRealtimeInput and no chunk of it
\* that was still being decoded is started.
C11_Cancellation ==
    [][/\ \A k \in Sessions : sent'[k] # sent[k] => ~TornDown(k)
       /\ \A i \in DOMAIN chunks :
             (chunks[i].st = "decoding" /\ chunks'[i].st = "scheduled")
             => ~TornDown(chunks[i].sess)]_vars

\* The connection state a status line stands for: both failure texts
\* ('Error', 'Failed to connect') are the Error state.
StateOf(s) ==
    CASE s = "Disconnected" -> "Disconnected"
      [] s = "Connecting..." -> "Connecting"
      [] s = "Live" -> "Live"
      [] OTHER -> "Error"

StatusEdges ==
    {<<"Disconnected", "Connecting">>, <<"Connecting", "Live">>, <<"Live", "Disconnected">>,
     <<"Connecting", "Error">>, <<"Error", "Disconnected">>}

\* C12: every change of the connection state follows one of the edges
\* Disconnected -> Connecting -> Live -> Disconnected, Connecting -> Error ->
\* Disconnected.
C12_StatusEdges ==
    [][StateOf(status') # StateOf(status)
          => <<StateOf(status), StateOf(status')>> \in StatusEdges]_vars

\* C13: no reachable state is stuck: when the button shows 'End Session' a
\* click runs disconnect() and leaves it showing 'Start Talking'; when it
\* shows 'Start Talking' a click runs a fresh connect() that starts a new
\* session; and every session being opened can open, which makes the view
\* Live with that session open.  (Stated for the states in which the model
\* has a session left to create.)
C13_Recoverable ==
    /\ isConnected => ENABLED (ClickDisconnect /\ ~isConnected')
    /\ (~isConnected /\ nSessions < MaxSessions) =>
          ENABLED (/\ ClickConnect
                   /\ nSessions' = nSessions + 1
                   /\ session'[nSessions'] = "opening")
    /\ \A k \in Sessions :
          session[k] = "opening" =>
              ENABLED (/\ onopen(k)
                       /\ status' = "Live" /\ isConnected' /\ session'[k] = "open")

\* After a session error or close and a microphone denial, a fresh connect()
\* has opened a new session and the view is Live.
C13_Witness ==
    /\ lastOp = "onopen"
    /\ status = "Live" /\ isConnected
    /\ nSessions >= 2 /\ session[nSessions] = "open"
    /\ \E k \in 1..(nSessions - 1) : session[k] \in {"errored", "closed"}
    /\ \E k \in 1..(nSessions - 1) : mic[k] = "denied"

\* C14: the frames passed to a session's sendRealtimeInput are in capture
\* order (frame numbers count the onaudioprocess calls of that session's
\* capture graph), frames captured before the promise resolved included.
C14_CaptureOrder ==
    \A k \in Sessions :
        \A i, j \in DOMAIN sent[k] : i < j => sent[k][i] < sent[k][j]

\* Two frames were captured before the session promise resolved; its
\* resolution has just submitted both.
C14_Witness ==
    \E k \in Sessions :
        /\ lastOp = "promiseResolved" /\ resolved = {k}
        /\ nFrames[k] = 2 /\ sent[k] = <<1, 2>>

\* C15: a failed request shows a failure message for that request and
\* nothing else changes: in ChatView the failure text is the newest message,
\* every other request in flight can still deliver and a new one can be
\* typed; in StudioView the failure alert was shown and the button is free
\* again; in VisionView the stored failure text is rendered as text and the
\* action button is free again.
C15_FailureIsolated ==
    /\ lastOp = "sendChatMessageRejected" =>
          /\ messages[Len(messages)].role = "error"
          /\ \A r \in chatReqs : ENABLED sendChatMessageResolved(r)
          /\ ENABLED onChange(TRUE)
    /\ lastOp \in {"generateImageRejected", "generateSpeechRejected", "generateVideoRejected"} =>
          /\ alerts # {}
          /\ ~studioLoading
    /\ lastOp = "actionRejected" =>
          /\ output.kind = "error"
          /\ ~visionLoading
    /\ (output.kind = "error" /\ ~visionLoading) => VisionShown = "text"

\* C16: generateVideo fetches the video only after the operation reported
\* done with a video URI: while it is waiting or polling nothing was fetched
\* and the operation is not done; a fetch was issued once, and only for a
\* done operation with a URI; a done operation without a URI ended the call
\* with 'Video generation failed' and no fetch.
C16_FetchOnlyWhenDone ==
    \A g \in gen :
        g.mode = "video" =>
            /\ g.pc \in {"generateVideos", "setTimeout", "getVideosOperation"} =>
                  ~g.done /\ g.fetched = 0
            /\ g.fetched > 0 => g.done /\ g.uri /\ g.fetched = 1
            /\ g.pc \in {"fetch", "blob", "returned"} => g.fetched = 1
            /\ (g.done /\ ~g.uri) =>
                  g.pc = "threw" /\ g.error = "Video generation failed" /\ g.fetched = 0

\* One call polled a not-done operation, saw it done and returned the
\* fetched video; another saw the operation done without a URI and threw.
C16_Witness ==
    /\ \E g \in gen : g.mode = "video" /\ g.polls >= 1 /\ g.pc = "returned"
    /\ \E g \in gen : g.mode = "video" /\ g.done /\ ~g.uri /\ g.pc = "threw"

\* C17: nextStartTime changes only in the scheduling step of the inbound
\* handler and in connect(): the capture frame callback, the volume refresh,
\* onopen, onclose, onerror, disconnect and every other step leave it as it is.
C17_ClockWriters ==
    [][nextStartTimeRef' # nextStartTimeRef => lastOp' \in {"schedule", "connect"}]_vars

\* The clock has been advanced by a scheduled chunk, frames have been
\* captured, and disconnect() has just run.
C17_Witness ==
    /\ lastOp = "disconnect"
    /\ nextStartTimeRef > 0
    /\ TotalFrames > 0
    /\ \E i \in DOMAIN chunks : chunks[i].st = "scheduled"

\* C18: the playback intervals [start, start + duration) of any two chunks
\* of one session do not overlap (stated for a session that is still open
\* and was not asked to close, and for chunks started on the same running
\* output context).
C18_NoOverlap ==
    \A i, j \in DOMAIN chunks :
        (/\ i # j
         /\ chunks[i].st = "scheduled" /\ chunks[j].st = "scheduled"
         /\ chunks[i].sess = chunks[j].sess
         /\ chunks[i].ctx = chunks[j].ctx
         /\ session[chunks[i].sess] = "open" /\ chunks[i].sess \notin closeReq
         /\ outCtx[chunks[i].ctx] = "running")
        => ~(/\ chunks[i].start < chunks[j].start + chunks[j].pl.dur
             /\ chunks[j].start < chunks[i].start + chunks[i].pl.dur)

\* C19: while the operation has not reported done, a generateVideo call is
\* waiting or polling, or one of its remote calls was rejected: it has not
\* returned and has not failed on its own; after a not-done answer the next
\* poll can always be made, however many were made before; and once the
\* operation has reported done the call returns or throws.
C19_PollsUntilDone ==
    /\ [](\A g \in gen :
            (g.mode = "video" /\ ~g.done) =>
                \/ g.pc \in {"generateVideos", "setTimeout", "getVideosOperation"}
                \/ g.pc = "threw" /\ g.error = "rejected")
    /\ [](\A g \in gen : g.pc = "setTimeout" => ENABLED setTimeoutFired(g))
    /\ \A r \in 1..MaxGen :
          (\E g \in gen : g.req = r /\ g.mode = "video" /\ g.done)
          ~> (\E g \in gen : g.req = r /\ g.pc \in {"returned", "threw"})

\* A call polled a not-done operation as often as the model allows, then saw
\* it done and returned.
C19_Witness ==
    \E g \in gen : g.mode = "video" /\ g.polls = MaxPolls /\ g.done /\ g.pc = "returned"

\* C20: a session is created only by a click on the button while it offers
\* connect: no step of onerror, onclose, a failed connect or any other
\* callback calls ai.live.connect.
C20_NoAutoRetry ==
    [][(nSessions' # nSessions \/ \E k \in Sessions : session[k] = "none" /\ session'[k] # "none")
          => (~isConnected /\ lastOp' = "connect")]_vars

\* A session has failed, another has closed, a later connect has failed, and
\* no session is open or being opened.
C20_Witness ==
    /\ lastOp = "connectFail"
    /\ \E k \in Sessions : session[k] = "errored"
    /\ \E k \in Sessions : session[k] = "closed"
    /\ \A k \in Sessions : ~Active(k)

\* C21: in every reachable state isConnected is true exactly when the status
\* is 'Live', whichever session's callback ran last.
C21_ConnectedIffLive == isConnected <=> (status = "Live")

\* The onopen of an earlier session has just been delivered after a later
\* connect() and after disconnect() had asked that later session to close.
C21_Witness ==
    /\ lastOp = "onopen"
    /\ nSessions >= 2
    /\ closeReq # {}
    /\ \E k \in 1..(nSessions - 1) : session[k] = "open" /\ mic[k] = "pending"
    /\ \E k \in Sessions : session[k] \in {"errored", "closed"}

\* C22: every output context that exists and is not closed is the one held
\* in audioContextRef, so at most one is unclosed at any time.
C22_SingleOutputContext ==
    \A k \in Sessions : outCtx[k] = "running" => audioContextRef = k

\* C23: isLoading is true in every state in which a sendChatMessage request
\* is in flight.
C23_LoadingWhileInFlight == chatReqs # {} => isLoading

\* C24: a non-null output of VisionView was produced by a request issued
\* under the current activeTab, and a non-null result of StudioView by a
\* request issued under the current mode.
C24_ResultOfCurrentTab ==
    /\ output # NoOutput => output.tab = activeTab
    /\ result # NoResult => result.mode = mode
====
